---- MODULE Spec2Model ----
(***************************************************************************)
(* FarmAI backend: the forum's moderation scanner, warning ledger and      *)
(* access gate (routes/forum.js, utils/contentModeration.js) as a state    *)
(* machine over the persisted user document, the forum posts and the       *)
(* requests in flight; the completion of a crop-calendar task              *)
(* (routes/cropCalendar.js) over the CropCalendar collection.              *)
(*                                                                         *)
(* Texts are sequences of one-character strings.  Times are milliseconds   *)
(* since the start of the run, as Date values are.  One reading of the     *)
(* clock is taken for each synchronous block of a handler.                 *)
(***************************************************************************)
EXTENDS Integers, Sequences, FiniteSets, TLC

VARIABLES
    now,        \* the wall clock, ms
    ticks,      \* clock steps taken so far
    userExists, \* whether User.findById finds the requesting user
    db,         \* the persisted user document (forum fields)
    posts,      \* the ForumPost collection, in creation order
    reqs,       \* the requests: position in the pipeline and local data
    peakWarnings, \* the highest forumWarnings persisted so far
    ledgerLog,  \* the flagged direct ledger calls, in call order
    last,       \* the most recent direct call: operation and result
    calendars   \* the CropCalendar collection

vars == <<now, ticks, userExists, db, peakWarnings, posts, reqs, ledgerLog, last,
         calendars>>

---------------------------------------------------------------------------
(* Bounds of the model *)

MaxTicks == 2
MaxDays == 15
MaxCalls == 4
MaxReqs == 2
MaxRun == 6
MaxLetters == 12
MaxCalendarDays == 6

---------------------------------------------------------------------------
(* Values *)

\* JavaScript null for forumBlockedUntil
Null == -1

\* JavaScript undefined for a text field that is missing from the request
Undefined == <<"undefined">>

\* A request field that is an object, {} in the JSON body
EmptyObject == <<"[object Object]">>

\* typeof text === 'string'
IsString(text) == text \notin {Undefined, EmptyObject}

\* 1000 * 60 * 60 * 24
DayMs == 86400000

\* blockUntil.setDate(blockUntil.getDate() + 7)
BlockDays == 7

\* if (user.forumWarnings >= 3)
PermanentAt == 3

\* if (user.forumWarnings === 2)
TemporaryAt == 2

SevenDaysMs == BlockDays * DayMs

---------------------------------------------------------------------------
(* utils/contentModeration.js *)

UpperChars == <<"A","B","C","D","E","F","G","H","I","J","K","L","M",
                "N","O","P","Q","R","S","T","U","V","W","X","Y","Z">>
LowerChars == <<"a","b","c","d","e","f","g","h","i","j","k","l","m",
                "n","o","p","q","r","s","t","u","v","w","x","y","z">>
DigitChars == <<"0","1","2","3","4","5","6","7","8","9">>

Range(s) == {s[i] : i \in 1..Len(s)}

\* [A-Z]
UpperSet == Range(UpperChars)

\* \w of a JavaScript regular expression: [A-Za-z0-9_]
WordSet == Range(UpperChars) \cup Range(LowerChars) \cup Range(DigitChars) \cup {"_"}

IsUpper(c) == c \in UpperSet

IsWordChar(c) == c \in WordSet

\* \s of a JavaScript regular expression (the ASCII part)
IsSpace(c) == c \in {" ", "\t", "\n"}

ToLowerChar(c) ==
    IF IsUpper(c)
    THEN LowerChars[CHOOSE i \in 1..Len(UpperChars) : UpperChars[i] = c]
    ELSE c

ToLowerCase(text) == [i \in 1..Len(text) |-> ToLowerChar(text[i])]

\* .replace(/[^\w\s]/g, ' ')
ReplaceSpecial(text) ==
    [i \in 1..Len(text) |->
        IF IsWordChar(text[i]) \/ IsSpace(text[i]) THEN text[i] ELSE " "]

\* .replace(/\s+/g, ' '): every maximal run of whitespace becomes one space
RECURSIVE CollapseFrom(_, _)
CollapseFrom(text, i) ==
    IF i > Len(text) THEN <<>>
    ELSE IF IsSpace(text[i])
         THEN IF i > 1 /\ IsSpace(text[i - 1])
              THEN CollapseFrom(text, i + 1)
              ELSE <<" ">> \o CollapseFrom(text, i + 1)
         ELSE <<text[i]>> \o CollapseFrom(text, i + 1)

CollapseSpaces(text) == CollapseFrom(text, 1)

\* .trim()
RECURSIVE TrimStart(_)
TrimStart(text) ==
    IF text # <<>> /\ IsSpace(Head(text)) THEN TrimStart(Tail(text)) ELSE text

RECURSIVE TrimEnd(_)
TrimEnd(text) ==
    IF text # <<>> /\ IsSpace(text[Len(text)])
    THEN TrimEnd(SubSeq(text, 1, Len(text) - 1))
    ELSE text

Trim(text) == TrimEnd(TrimStart(text))

normalizeText(text) == Trim(CollapseSpaces(ReplaceSpecial(ToLowerCase(text))))

\* String.prototype.includes
Includes(text, part) ==
    \E i \in 0..(Len(text) - Len(part)) : SubSeq(text, i + 1, i + Len(part)) = part

abusiveWords == <<
    <<"d","a","m","n">>, <<"h","e","l","l">>, <<"c","r","a","p">>,
    <<"s","t","u","p","i","d">>, <<"i","d","i","o","t">>, <<"f","o","o","l">>,
    <<"f","*","*","*">>, <<"s","*","*","*">>, <<"b","*","*","*","*">>,
    <<"a","*","*">>, <<"a","*","*","*">>,
    <<"s","h","u","t"," ","u","p">>,
    <<"y","o","u"," ","a","r","e"," ","w","r","o","n","g">>,
    <<"y","o","u"," ","d","o","n","t"," ","k","n","o","w">>,
    <<"y","o","u"," ","a","r","e"," ","l","y","i","n","g">>,
    <<"h","a","t","e"," ","y","o","u">>,
    <<"k","i","l","l"," ","y","o","u","r","s","e","l","f">>,
    <<"y","o","u"," ","s","h","o","u","l","d"," ","d","i","e">>,
    <<"b","u","y"," ","n","o","w">>,
    <<"c","l","i","c","k"," ","h","e","r","e">>,
    <<"f","r","e","e"," ","m","o","n","e","y">>,
    <<"g","e","t"," ","r","i","c","h"," ","q","u","i","c","k">> >>

SpamPattern == <<"s","p","a","m","_","p","a","t","t","e","r","n">>

\* (text.match(/[A-Z]/g) || []).length > text.length * 0.5 && text.length > 10
excessiveCaps(text) ==
    /\ 2 * Cardinality({i \in 1..Len(text) : IsUpper(text[i])}) > Len(text)
    /\ Len(text) > 10

\* /(.)\1{4,}/.test(text): . matches any character but a line terminator
repeatedChars(text) ==
    \E i \in 1..(Len(text) - 4) :
        /\ text[i] # "\n"
        /\ \A k \in 1..4 : text[i + k] = text[i]

\* [...new Set(detectedWords)]: first occurrences, in order
RECURSIVE Dedupe(_)
Dedupe(s) ==
    IF s = <<>> THEN <<>>
    ELSE LET front == Dedupe(SubSeq(s, 1, Len(s) - 1))
             x == s[Len(s)]
         IN IF x \in Range(front) THEN front ELSE Append(front, x)

\* const normalizedWord = normalizeText(word), for each word of the list
normalizedWords == [i \in 1..Len(abusiveWords) |-> normalizeText(abusiveWords[i])]

\* for (const word of abusiveWords) ... detectedWords.push(word)
RECURSIVE MatchedFrom(_, _)
MatchedFrom(normalizedText, i) ==
    IF i > Len(abusiveWords) THEN <<>>
    ELSE (IF Includes(normalizedText, normalizedWords[i])
          THEN <<abusiveWords[i]>> ELSE <<>>)
         \o MatchedFrom(normalizedText, i + 1)

\* if (!text || typeof text !== 'string')
isScannable(text) == IsString(text) /\ text # <<>>

containsAbusiveLanguage(text) ==
    IF ~isScannable(text)
    THEN [isAbusive |-> FALSE, detectedWords |-> <<>>, severity |-> "none"]
    ELSE LET found == MatchedFrom(normalizeText(text), 1)
             detected == IF excessiveCaps(text) \/ repeatedChars(text)
                         THEN Append(found, SpamPattern) ELSE found
         IN [isAbusive |-> Len(detected) > 0,
             detectedWords |-> Dedupe(detected),
             severity |-> IF Len(detected) > 2 THEN "high"
                          ELSE IF Len(detected) > 0 THEN "medium" ELSE "low"]

\* `${x}` of a template literal
Str(text) ==
    IF text = Undefined THEN <<"u","n","d","e","f","i","n","e","d">>
    ELSE IF text = EmptyObject
    THEN <<"[","o","b","j","e","c","t"," ","O","b","j","e","c","t","]">>
    ELSE text

\* title ? `${title} ${content}` : content
FullText(content, title) ==
    IF title # Undefined /\ title # <<>>
    THEN Str(title) \o <<" ">> \o Str(content)
    ELSE content

\* The texts the requests of the model carry
Hi == <<"h","i">>
Damn == <<"D","a","m","n","!">>

SampleContents == {Hi, Damn}
SampleTitles == {Undefined, Hi}

\* The verdicts for the texts of the model, computed once
SampleVerdicts ==
    {<<x, containsAbusiveLanguage(FullText(x[1], x[2]))>> :
        x \in (SampleContents \cup {Undefined, EmptyObject, <<>>})
                \X (SampleTitles \cup {<<>>})}

moderateContent(content, title) ==
    IF \E p \in SampleVerdicts : p[1] = <<content, title>>
    THEN (CHOOSE p \in SampleVerdicts : p[1] = <<content, title>>)[2]
    ELSE containsAbusiveLanguage(FullText(content, title))

---------------------------------------------------------------------------
(* routes/forum.js: the user document, the access gate, the warning ledger *)

\* The forum fields of a newly created account
ZeroUser ==
    [forumWarnings |-> 0,
     forumWarningHistory |-> <<>>,
     isBlockedFromForum |-> FALSE,
     forumBlockedUntil |-> Null]

\* Math.ceil(a / b) for b > 0
CeilDiv(a, b) == IF a % b = 0 THEN a \div b ELSE (a \div b) + 1

\* if (user.forumBlockedUntil && new Date() < user.forumBlockedUntil)
isTemporarilyBlockedOrEqual(user, t) ==
    user.forumBlockedUntil # Null /\ t <= user.forumBlockedUntil

isTemporarilyBlocked(user, t) ==
    user.forumBlockedUntil # Null /\ t < user.forumBlockedUntil

\* if (user.forumBlockedUntil && new Date() >= user.forumBlockedUntil)
isExpiredStrictly(user, t) ==
    user.forumBlockedUntil # Null /\ t > user.forumBlockedUntil

isExpired(user, t) ==
    user.forumBlockedUntil # Null /\ t >= user.forumBlockedUntil

\* checkForumAccess without the check of isBlockedFromForum
checkForumAccessWithoutPermanent(user, t) ==
    IF isTemporarilyBlocked(user, t)
    THEN [kind |-> "deniedTemporary", status |-> 403, clear |-> FALSE,
          daysRemaining |-> CeilDiv(user.forumBlockedUntil - t, DayMs),
          user |-> user]
    ELSE IF isExpired(user, t)
    THEN [kind |-> "allowed", status |-> 0, clear |-> TRUE,
          daysRemaining |-> 0,
          user |-> [user EXCEPT !.forumBlockedUntil = Null]]
    ELSE [kind |-> "allowed", status |-> 0, clear |-> FALSE,
          daysRemaining |-> 0, user |-> user]

\* The synchronous part of checkForumAccess on the loaded document `user`
\* at time t: the response, or next() with the cleared document to save.
checkForumAccess(user, t) ==
    IF user.isBlockedFromForum
    THEN [kind |-> "deniedPermanent", status |-> 403, clear |-> FALSE,
          daysRemaining |-> 0, user |-> user]
    ELSE IF isTemporarilyBlocked(user, t)
    THEN [kind |-> "deniedTemporary", status |-> 403, clear |-> FALSE,
          daysRemaining |-> CeilDiv(user.forumBlockedUntil - t, DayMs),
          user |-> user]
    ELSE IF isExpired(user, t)
    THEN [kind |-> "allowed", status |-> 0, clear |-> TRUE,
          daysRemaining |-> 0,
          user |-> [user EXCEPT !.forumBlockedUntil = Null]]
    ELSE [kind |-> "allowed", status |-> 0, clear |-> FALSE,
          daysRemaining |-> 0, user |-> user]

NoAction ==
    [blocked |-> FALSE, warned |-> FALSE, warnings |-> 0,
     message |-> "none", messageNumber |-> 0, blockedUntil |-> Null]

\* if (moderationResult.isAbusive)
isFlaggedTruthy(moderationResult) == TRUE

isFlagged(moderationResult) == moderationResult.isAbusive

\* user.forumWarnings = (user.forumWarnings || 0) + 1
nextWarningsUnparenthesised(user) ==
    IF user.forumWarnings # 0 THEN user.forumWarnings ELSE 1

nextWarnings(user) == user.forumWarnings + 1

\* Which of the three branches a flagged call takes at the new count
ledgerBranchTemporaryFirst(warnings) ==
    IF warnings >= TemporaryAt THEN "temporary"
    ELSE IF warnings >= PermanentAt THEN "permanent"
    ELSE "warning"

ledgerBranchSwapped(warnings) ==
    IF warnings >= TemporaryAt THEN "permanent"
    ELSE IF warnings = PermanentAt THEN "temporary"
    ELSE "warning"

ledgerBranchLate(warnings) ==
    IF warnings > PermanentAt THEN "permanent"
    ELSE IF warnings = TemporaryAt THEN "temporary"
    ELSE "warning"

ledgerBranchExactlyThree(warnings) ==
    IF warnings = PermanentAt THEN "permanent"
    ELSE IF warnings = TemporaryAt THEN "temporary"
    ELSE "warning"

ledgerBranch(warnings) ==
    IF warnings >= PermanentAt THEN "permanent"
    ELSE IF warnings = TemporaryAt THEN "temporary"
    ELSE "warning"

\* `You have ${user.forumWarnings} warning(s). After 3 warnings, ...`
warningMessageRemaining(user) == PermanentAt - user.forumWarnings

warningMessageNumber(user) == user.forumWarnings

\* The synchronous part of handleContentModeration on the in-memory
\* document `user` at time t: the mutated document, the value returned once
\* the save resolved, the modified paths the save sends and the pushed entries.
handleContentModeration(user, content, title, t) ==
    LET moderationResult == moderateContent(content, title)
        warnings == nextWarnings(user)
        entry == [date |-> t,
                  reason |-> moderationResult.detectedWords,
                  content |-> FullText(content, title)]
        counted == [user EXCEPT !.forumWarnings = warnings,
                                !.forumWarningHistory = Append(@, entry)]
        branch == ledgerBranch(warnings)
    IN  IF ~isFlagged(moderationResult)
        THEN [user |-> user, save |-> FALSE, paths |-> {}, pushed |-> <<>>,
              result |-> NoAction]
        ELSE IF branch = "permanent"
        THEN [user |-> [counted EXCEPT !.isBlockedFromForum = TRUE],
              save |-> TRUE,
              paths |-> {"forumWarnings", "isBlockedFromForum"},
              pushed |-> <<entry>>,
              result |-> [blocked |-> TRUE, warned |-> FALSE,
                          warnings |-> warnings, message |-> "permanent",
                          messageNumber |-> 0, blockedUntil |-> Null]]
        ELSE IF branch = "temporary"
        THEN [user |-> [counted EXCEPT !.forumBlockedUntil = t + SevenDaysMs],
              save |-> TRUE,
              paths |-> {"forumWarnings", "forumBlockedUntil"},
              pushed |-> <<entry>>,
              result |-> [blocked |-> TRUE, warned |-> FALSE,
                          warnings |-> warnings, message |-> "temporary",
                          messageNumber |-> BlockDays,
                          blockedUntil |-> t + SevenDaysMs]]
        ELSE [user |-> counted,
              save |-> TRUE,
              paths |-> {"forumWarnings"},
              pushed |-> <<entry>>,
              result |-> [blocked |-> FALSE, warned |-> TRUE,
                          warnings |-> warnings, message |-> "warning",
                          messageNumber |-> warningMessageNumber(counted),
                          blockedUntil |-> Null]]

\* user.save() as an increment of the persisted count
SaveUserIncrementing(stored, user, paths, pushed) ==
    [forumWarnings |-> stored.forumWarnings + Len(pushed),
     isBlockedFromForum |->
        IF "isBlockedFromForum" \in paths THEN user.isBlockedFromForum
        ELSE stored.isBlockedFromForum,
     forumBlockedUntil |->
        IF "forumBlockedUntil" \in paths THEN user.forumBlockedUntil
        ELSE stored.forumBlockedUntil,
     forumWarningHistory |-> stored.forumWarningHistory \o pushed]

\* user.save() as two writes, of which only the first one has happened:
\* the count and the history entry, without the block fields
SaveUserCountFirst(stored, user, paths, pushed) ==
    [forumWarnings |->
        IF "forumWarnings" \in paths THEN user.forumWarnings
        ELSE stored.forumWarnings,
     isBlockedFromForum |-> stored.isBlockedFromForum,
     forumBlockedUntil |->
        IF paths = {"forumBlockedUntil"} THEN user.forumBlockedUntil
        ELSE stored.forumBlockedUntil,
     forumWarningHistory |-> stored.forumWarningHistory \o pushed]

\* user.save() writing the whole in-memory history over the persisted one
SaveUserWholeHistory(stored, user, paths, pushed) ==
    [forumWarnings |->
        IF "forumWarnings" \in paths THEN user.forumWarnings
        ELSE stored.forumWarnings,
     isBlockedFromForum |->
        IF "isBlockedFromForum" \in paths THEN user.isBlockedFromForum
        ELSE stored.isBlockedFromForum,
     forumBlockedUntil |->
        IF "forumBlockedUntil" \in paths THEN user.forumBlockedUntil
        ELSE stored.forumBlockedUntil,
     forumWarningHistory |->
        IF pushed # <<>> THEN user.forumWarningHistory
        ELSE stored.forumWarningHistory]

\* user.save(): the modified paths of the in-memory document are written
\* over the persisted one and the pushed history entries are appended to it.
SaveUser(stored, user, paths, pushed) ==
    [forumWarnings |->
        IF "forumWarnings" \in paths THEN user.forumWarnings
        ELSE stored.forumWarnings,
     isBlockedFromForum |->
        IF "isBlockedFromForum" \in paths THEN user.isBlockedFromForum
        ELSE stored.isBlockedFromForum,
     forumBlockedUntil |->
        IF "forumBlockedUntil" \in paths THEN user.forumBlockedUntil
        ELSE stored.forumBlockedUntil,
     forumWarningHistory |-> stored.forumWarningHistory \o pushed]

\* The highest persisted count once `stored` is the persisted document
PeakWith(stored) ==
    IF stored.forumWarnings > peakWarnings THEN stored.forumWarnings
    ELSE peakWarnings

---------------------------------------------------------------------------
(* The inputs of the model *)

TickSteps == {1, SevenDaysMs}

Tick ==
    /\ ticks < MaxTicks
    /\ \E d \in TickSteps :
        /\ now + d <= MaxDays * DayMs
        /\ now' = now + d
    /\ ticks' = ticks + 1
    /\ UNCHANGED <<userExists, db, peakWarnings, posts, reqs, ledgerLog, last, calendars>>

---------------------------------------------------------------------------
(* The ledger and the gate called directly, one call after another, on one *)
(* user document that starts zero-valued.                                  *)

Reqs == 1..MaxReqs

\* One request more, for the runs that need three requests in flight
MoreReqs == 1..(MaxReqs + 1)

\* The fields of a loaded ForumPost document an upvote works on
NoPost == [upvotes |-> <<>>, version |-> 0]

IdleReq ==
    [pc |-> "idle", kind |-> "none", user |-> ZeroUser, access |-> "none",
     scanned |-> FALSE, ledger |-> NoAction, paths |-> {}, pushed |-> <<>>,
     loaded |-> Null, wrote |-> Null, target |-> 0, content |-> Undefined,
     status |-> 0, voter |-> 0, atomic |-> "none", post |-> NoPost]

NoCall == [op |-> "none", seq |-> 0, again |-> FALSE, saved |-> FALSE]

InitLedger ==
    /\ now = 0
    /\ ticks = 0
    /\ userExists = TRUE
    /\ db = ZeroUser
    /\ peakWarnings = 0
    /\ posts = <<>>
    /\ reqs = [r \in MoreReqs |-> IdleReq]
    /\ ledgerLog = <<>>
    /\ last = NoCall
    /\ calendars = <<>>

\* handleContentModeration(user, content, title) and its save, as one call.
\* ledgerLog records the flagged calls; last.seq alternates with every call.
LedgerCallWith(content, title) ==
    LET call == handleContentModeration(db, content, title, now)
        stored == IF call.save
                  THEN SaveUser(db, call.user, call.paths, call.pushed)
                  ELSE db
    IN  /\ call.save => db.forumWarnings < MaxCalls
        /\ db' = stored
        /\ peakWarnings' = PeakWith(stored)
        /\ ledgerLog' = IF call.save
                        THEN Append(ledgerLog,
                                    [at |-> now, result |-> call.result,
                                     count |-> stored.forumWarnings,
                                     until |-> stored.forumBlockedUntil])
                        ELSE ledgerLog
        /\ last' = [op |-> "ledger", seq |-> 1 - last.seq, again |-> FALSE,
                    saved |-> call.save, result |-> call.result]
        /\ UNCHANGED <<now, ticks, userExists, posts, reqs, calendars>>

LedgerCall == \E content \in SampleContents, title \in SampleTitles :
    LedgerCallWith(content, title)

\* checkForumAccess and its save, as one call.  last.again tells that the
\* call before this one was an access check that cleared an expired block.
GateCall ==
    /\ LET gate == checkForumAccess(db, now)
       IN  /\ db' = IF gate.clear
                    THEN SaveUser(db, gate.user, {"forumBlockedUntil"}, <<>>)
                    ELSE db
           /\ peakWarnings' = peakWarnings
           /\ last' = [op |-> "access", seq |-> 1 - last.seq,
                       again |-> (last.op = "access" /\ last.saved),
                       saved |-> gate.clear,
                       result |-> [kind |-> gate.kind,
                                   daysRemaining |-> gate.daysRemaining]]
    /\ UNCHANGED <<now, ticks, userExists, posts, reqs, ledgerLog, calendars>>

NextLedger == LedgerCall \/ GateCall \/ Tick

SpecLedger == InitLedger /\ [][NextLedger]_vars

---------------------------------------------------------------------------
(* The scanner called directly: containsAbusiveLanguage on texts built     *)
(* from the list, on runs of one character, on mixes of upper and lower    *)
(* case and on ordinary words; moderateContent and the ledger on content   *)
(* that is missing or not a string.                                        *)

ToUpperChar(c) ==
    IF c \in Range(LowerChars)
    THEN UpperChars[CHOOSE i \in 1..Len(LowerChars) : LowerChars[i] = c]
    ELSE c

ToUpperCase(text) == [i \in 1..Len(text) |-> ToUpperChar(text[i])]

\* What stands between the words of a phrase
Separators == {<<" ">>, <<".">>, <<",">>, <<"-">>, <<"_">>, <<"!">>, <<",", " ">>}

\* The word or phrase with `separator` in place of each of its spaces
RECURSIVE Separated(_, _)
Separated(word, separator) ==
    IF word = <<>> THEN <<>>
    ELSE (IF Head(word) = " " THEN separator ELSE <<Head(word)>>)
         \o Separated(Tail(word), separator)

\* A text that contains the i-th entry of the list: in lower or upper case,
\* alone or inside a sentence
TermText(i, separator, upper, inside) ==
    LET written == Separated(abusiveWords[i], separator)
        cased == IF upper THEN ToUpperCase(written) ELSE written
    IN  IF inside THEN <<"o","k"," ">> \o cased \o <<" ","o","k">> ELSE cased

\* n times the character c
Repeated(c, n) == [k \in 1..n |-> c]

RunChars == {"a", "x", "!", " ", "\n"}

Cycle(chars, n) == [k \in 1..n |-> chars[((k - 1) % Len(chars)) + 1]]

\* u upper-case letters followed by l lower-case letters, no letter twice
\* in a row
CapsText(u, l) == Cycle(<<"X","Y","Z">>, u) \o Cycle(<<"x","y","z">>, l)

PatternTexts ==
    {Repeated(c, n) : c \in RunChars, n \in 3..MaxRun}
    \cup {CapsText(x[1], x[2]) :
            x \in {y \in (0..MaxLetters) \X (0..MaxLetters) :
                        y[1] + y[2] \in 1..MaxLetters}}

\* Ordinary words
PlainTexts ==
    {Hi,
     <<"c","r","o","p">>,
     <<"r","a","i","n">>,
     <<"w","h","e","a","t">>,
     <<"s","e","e","d">>,
     <<"t","o","m","a","t","o">>,
     <<"G","o","o","d"," ","c","r","o","p","!">>}

MissingContents == {Undefined, EmptyObject}
ScanTitles == {Undefined, <<>>, Hi}

ScanRecord(op, text, about, result) ==
    [op |-> op, seq |-> 0, again |-> FALSE, saved |-> FALSE,
     text |-> text, about |-> about, result |-> result]

\* containsAbusiveLanguage(text) for a text that contains a list entry.
\* The scanner keeps no state: each run scans one text, as its first call.
ScanTerm ==
    /\ last = NoCall
    /\ \E i \in 1..Len(abusiveWords), separator \in Separators,
          upper \in BOOLEAN, inside \in BOOLEAN :
        LET text == TermText(i, separator, upper, inside)
        IN  last' = ScanRecord("scanTerm", text, abusiveWords[i],
                               containsAbusiveLanguage(text))
    /\ UNCHANGED <<now, ticks, userExists, db, peakWarnings, posts, reqs, ledgerLog, calendars>>

\* containsAbusiveLanguage(text) for the other texts
ScanText ==
    /\ last = NoCall
    /\ \E text \in PatternTexts \cup PlainTexts :
        last' = ScanRecord("scanText", text, <<>>, containsAbusiveLanguage(text))
    /\ UNCHANGED <<now, ticks, userExists, db, peakWarnings, posts, reqs, ledgerLog, calendars>>

\* moderateContent(content, title) for content that is missing or no string
ModerateWith(content, title) ==
    /\ last = NoCall
    /\ last' = ScanRecord("moderate", content, title,
                           moderateContent(content, title))
    /\ UNCHANGED <<now, ticks, userExists, db, peakWarnings, posts, reqs, ledgerLog, calendars>>

ModerateCall == \E content \in MissingContents, title \in ScanTitles :
    ModerateWith(content, title)

\* handleContentModeration(user, content, title) for such content
RecordCall == \E content \in MissingContents, title \in ScanTitles :
    LedgerCallWith(content, title)

NextScan == ScanTerm \/ ScanText \/ ModerateCall \/ RecordCall

SpecScan == InitLedger /\ [][NextScan]_vars

---------------------------------------------------------------------------
(* The routes of routes/forum.js, one action for each stretch of a request *)
(* between two awaits.  All requests come from the one authenticated user. *)

Init ==
    /\ now = 0
    /\ ticks = 0
    /\ userExists \in BOOLEAN
    /\ db = ZeroUser
    /\ peakWarnings = 0
    /\ posts = <<>>
    /\ reqs = [r \in MoreReqs |-> IdleReq]
    /\ ledgerLog = <<>>
    /\ last = NoCall
    /\ calendars = <<>>

Finish(req, status) ==
    [req EXCEPT !.pc = "done", !.status = status, !.user = ZeroUser,
                !.paths = {}, !.pushed = <<>>, !.target = 0,
                !.content = Undefined, !.atomic = "none", !.post = NoPost]

\* Requests are taken up in the order of their numbers
MayStart(r) ==
    /\ reqs[r].pc = "idle"
    /\ IF r = 1 THEN TRUE ELSE reqs[r - 1].pc # "idle"

\* checkForumAccess: const user = await User.findById(req.user._id)
FindUser(r) ==
    /\ MayStart(r)
    /\ \E kind \in {"post", "reply"} :
        reqs' = [reqs EXCEPT ![r] =
            IF userExists
            THEN [@ EXCEPT !.pc = "found", !.kind = kind, !.user = db,
                           !.loaded = db.forumWarnings]
            ELSE Finish([@ EXCEPT !.kind = kind, !.access = "notFound"], 404)]
    /\ UNCHANGED <<now, ticks, userExists, db, peakWarnings, posts, ledgerLog, last, calendars>>

\* checkForumAccess: return res.status(403).json(...), or the save of the
\* cleared block, or next()
gateNextWithoutReturn(req, gate) ==
    IF gate.clear
    THEN [req EXCEPT !.pc = "clearing", !.user = gate.user]
    ELSE [req EXCEPT !.pc = "handler", !.access = gate.kind]

gateNext(req, gate) ==
    IF gate.kind # "allowed"
    THEN Finish([req EXCEPT !.access = gate.kind], gate.status)
    ELSE IF gate.clear
    THEN [req EXCEPT !.pc = "clearing", !.user = gate.user]
    ELSE [req EXCEPT !.pc = "handler", !.access = "allowed"]

\* checkForumAccess: the checks on the loaded document
CheckAccess(r) ==
    /\ reqs[r].pc = "found"
    /\ reqs' = [reqs EXCEPT ![r] =
            gateNext(@, checkForumAccess(reqs[r].user, now))]
    /\ UNCHANGED <<now, ticks, userExists, db, peakWarnings, posts, ledgerLog, last, calendars>>

\* checkForumAccess: await user.save() of the cleared block, then next()
ClearSave(r) ==
    /\ reqs[r].pc = "clearing"
    /\ db' = SaveUser(db, reqs[r].user, {"forumBlockedUntil"}, <<>>)
    /\ peakWarnings' = peakWarnings
    /\ reqs' = [reqs EXCEPT ![r] = [@ EXCEPT !.pc = "handler", !.access = "allowed"]]
    /\ UNCHANGED <<now, ticks, userExists, posts, ledgerLog, last, calendars>>

\* checkForumAccess: the save rejects, catch answers 500
ClearSaveFails(r) ==
    /\ reqs[r].pc = "clearing"
    /\ reqs' = [reqs EXCEPT ![r] = Finish([@ EXCEPT !.access = "error"], 500)]
    /\ UNCHANGED <<now, ticks, userExists, db, peakWarnings, posts, ledgerLog, last, calendars>>

\* The handler after handleContentModeration's synchronous part: on to the
\* ledger's save and the 403 or 400 response, or on to the content store
moderationNextWithoutReturn(req, call, content) ==
    [req EXCEPT !.pc = "storing", !.scanned = TRUE,
                !.ledger = call.result, !.content = content]

moderationNext(req, call, content) ==
    IF call.save
    THEN [req EXCEPT !.pc = "saving", !.scanned = TRUE,
                     !.user = call.user, !.ledger = call.result,
                     !.paths = call.paths, !.pushed = call.pushed]
    ELSE [req EXCEPT !.pc = "storing", !.scanned = TRUE,
                     !.ledger = call.result, !.content = content]

\* The handler of POST /posts (title, content, category) or of
\* POST /posts/:postId/replies (content), up to the first await
Handle(r, title, content, category) ==
    /\ reqs[r].pc = "handler"
    /\ LET req == reqs[r]
           missing == IF req.kind = "post"
                      THEN title \in {Undefined, <<>>} \/ content \in {Undefined, <<>>}
                           \/ ~category
                      ELSE content \in {Undefined, <<>>}
           call == handleContentModeration(
                       req.user, content,
                       IF req.kind = "post" THEN title ELSE <<>>, now)
       IN  reqs' = [reqs EXCEPT ![r] =
            IF missing THEN Finish(req, 400)
            ELSE moderationNext(req, call, content)]
    /\ UNCHANGED <<now, ticks, userExists, db, peakWarnings, posts, ledgerLog, last, calendars>>

\* handleContentModeration: await user.save(), then the 403 or 400 response
LedgerSave(r) ==
    /\ reqs[r].pc = "saving"
    /\ db' = SaveUser(db, reqs[r].user, reqs[r].paths, reqs[r].pushed)
    /\ peakWarnings' = PeakWith(SaveUser(db, reqs[r].user, reqs[r].paths, reqs[r].pushed))
    /\ reqs' = [reqs EXCEPT ![r] =
            Finish([@ EXCEPT !.wrote = reqs[r].user.forumWarnings],
                   IF @.ledger.blocked THEN 403 ELSE 400)]
    /\ UNCHANGED <<now, ticks, userExists, posts, ledgerLog, last, calendars>>

\* The rejected save swallowed: the outcome is answered all the same
LedgerSaveFailsSilently(r) ==
    /\ reqs[r].pc = "saving"
    /\ reqs' = [reqs EXCEPT ![r] =
            Finish(@, IF @.ledger.blocked THEN 403 ELSE 400)]
    /\ UNCHANGED <<now, ticks, userExists, db, peakWarnings, posts, ledgerLog, last, calendars>>

\* handleContentModeration: the save rejects, the handler's catch answers 500
LedgerSaveFails(r) ==
    /\ reqs[r].pc = "saving"
    /\ reqs' = [reqs EXCEPT ![r] = Finish([@ EXCEPT !.ledger = NoAction], 500)]
    /\ UNCHANGED <<now, ticks, userExists, db, peakWarnings, posts, ledgerLog, last, calendars>>

\* POST /posts: await forumPost.save()
CreatePost(r) ==
    /\ reqs[r].pc = "storing"
    /\ reqs[r].kind = "post"
    /\ posts' = Append(posts, [by |-> r, content |-> reqs[r].content,
                               replies |-> <<>>, status |-> "open", views |-> 0,
                               upvotes |-> <<>>, version |-> 0])
    /\ reqs' = [reqs EXCEPT ![r] = Finish(@, 200)]
    /\ UNCHANGED <<now, ticks, userExists, db, peakWarnings, ledgerLog, last, calendars>>

\* POST /posts/:postId/replies: const post = await ForumPost.findById(postId)
FindPost(r, postId) ==
    /\ reqs[r].pc = "storing"
    /\ reqs[r].kind = "reply"
    /\ reqs' = [reqs EXCEPT ![r] =
            IF postId \in 1..Len(posts)
            THEN [@ EXCEPT !.pc = "replying", !.target = postId]
            ELSE Finish(@, 404)]
    /\ UNCHANGED <<now, ticks, userExists, db, peakWarnings, posts, ledgerLog, last, calendars>>

\* POST /posts/:postId/replies: post.replies.push(reply), the status, save
SaveReply(r) ==
    /\ reqs[r].pc = "replying"
    /\ posts' = [posts EXCEPT ![reqs[r].target] =
            [@ EXCEPT !.replies = Append(@, [by |-> r, content |-> reqs[r].content]),
                      !.status = IF @ = "open" THEN "answered" ELSE @,
                      !.version = @ + 1]]
    /\ reqs' = [reqs EXCEPT ![r] = Finish(@, 200)]
    /\ UNCHANGED <<now, ticks, userExists, db, peakWarnings, ledgerLog, last, calendars>>

\* GET /posts, GET /posts/:postId (views += 1 and save), GET /tags:
\* the routes without auth and without checkForumAccess
ReadOnly(r, route, postId) ==
    /\ MayStart(r)
    /\ reqs' = [reqs EXCEPT ![r] =
            Finish([@ EXCEPT !.kind = route],
                   IF route = "getPost" /\ postId \notin 1..Len(posts)
                   THEN 404 ELSE 200)]
    /\ posts' = IF route = "getPost" /\ postId \in 1..Len(posts)
                THEN [posts EXCEPT ![postId] = [@ EXCEPT !.views = @ + 1]]
                ELSE posts
    /\ UNCHANGED <<now, ticks, userExists, db, peakWarnings, ledgerLog, last, calendars>>

\* A whole flagged POST /posts request served at the start of the run,
\* before the first of the numbered requests arrives: the gate, its save,
\* the handler and the ledger's save
SoloRequest ==
    /\ userExists
    /\ \A r \in MoreReqs : reqs[r].pc = "idle"
    /\ ticks = 0
    /\ LET gate == checkForumAccess(db, now)
           cleared == IF gate.clear
                      THEN SaveUser(db, gate.user, {"forumBlockedUntil"}, <<>>)
                      ELSE db
           call == handleContentModeration(gate.user, Damn, Hi, now)
       IN  /\ gate.kind = "allowed"
           /\ call.save
           /\ db' = SaveUser(cleared, call.user, call.paths, call.pushed)
           /\ peakWarnings' =
                PeakWith(SaveUser(cleared, call.user, call.paths, call.pushed))
    /\ UNCHANGED <<now, ticks, userExists, posts, reqs, ledgerLog, last, calendars>>

NextOf(R) ==
    \/ Tick
    \/ SoloRequest
    \/ \E r \in R :
        \/ FindUser(r)
        \/ CheckAccess(r)
        \/ ClearSave(r)
        \/ ClearSaveFails(r)
        \/ \E title \in SampleTitles, content \in SampleContents \cup {Undefined},
              category \in BOOLEAN : Handle(r, title, content, category)
        \/ LedgerSave(r)
        \/ LedgerSaveFails(r)
        \/ CreatePost(r)
        \/ \E postId \in 1..MaxReqs : FindPost(r, postId)
        \/ SaveReply(r)
        \/ \E route \in {"listPosts", "getPost", "tags"}, postId \in 1..MaxReqs :
              ReadOnly(r, route, postId)

Next == NextOf(Reqs)

Spec == Init /\ [][Next]_vars

NextRace == NextOf(MoreReqs)

SpecRace == Init /\ [][NextRace]_vars

---------------------------------------------------------------------------
(* routes/cropCalendar.js: PUT /task/:calendarId/:taskId/complete.         *)
(* Dates are in ms; the days of the server's local time zone are 24 hours  *)
(* long but for one of 23 and one of 25 hours (the daylight-saving         *)
(* switches), and day 0 starts at time 0.                                  *)

HourMs == DayMs \div 24

\* The length of the local day d in hours
DayHours(d) == IF d = 2 THEN 23 ELSE IF d = 4 THEN 25 ELSE 24

\* Local midnight at the start of day d
RECURSIVE DayStart(_)
DayStart(d) == IF d = 0 THEN 0 ELSE DayStart(d - 1) + DayHours(d - 1) * HourMs

\* The local midnights of the days of the model
Midnights == {DayStart(d) : d \in 0..(2 * MaxCalendarDays)}

\* The local calendar day of the time t: the midnights passed after day 0's
DayOf(t) == Cardinality({m \in Midnights : m <= t}) - 1

\* date.setHours(0, 0, 0, 0): the last local midnight at or before t
StartOfDay(t) ==
    CHOOSE m \in Midnights : m <= t /\ \A n \in Midnights : n <= t => n <= m

\* date.setDate(date.getDate() + n): the same local time n days on
AddDays(t, n) == DayStart(DayOf(t) + n) + (t - StartOfDay(t))

\* Math.ceil((scheduledDate - today) / (1000 * 60 * 60 * 24))
daysDifferenceFloor(today, scheduledDate) ==
    (StartOfDay(scheduledDate) - StartOfDay(today)) \div DayMs

daysDifference(today, scheduledDate) ==
    CeilDiv(StartOfDay(scheduledDate) - StartOfDay(today), DayMs)

\* offsetDays of the first tasks of a template
TaskOffsets == <<0, 3>>

NewTask(scheduledDate) ==
    [scheduledDate |-> scheduledDate, completed |-> FALSE,
     completedDate |-> Null, notes |-> Undefined]

\* The sowing dates of the calendars of the model: 18:00 local time
SowingDates == {DayStart(d) + 18 * HourMs : d \in 0..(MaxCalendarDays - 2)}

CalendarUsers == {1, 2}

\* One calendar of user 1, its tasks not completed
InitCalendar ==
    /\ now = 0
    /\ ticks = 0
    /\ userExists = TRUE
    /\ db = ZeroUser
    /\ peakWarnings = 0
    /\ posts = <<>>
    /\ reqs = [r \in MoreReqs |-> IdleReq]
    /\ ledgerLog = <<>>
    /\ last = NoCall
    /\ \E sowingDate \in SowingDates :
        calendars = << [userId |-> 1,
                        tasks |-> [i \in 1..Len(TaskOffsets) |->
                            NewTask(AddDays(sowingDate, TaskOffsets[i]))]] >>

\* The clock moves on by 24 hours
TickDay ==
    /\ now + DayMs <= DayStart(MaxCalendarDays)
    /\ now' = now + DayMs
    /\ UNCHANGED <<ticks, userExists, db, peakWarnings, posts, reqs, ledgerLog, last, calendars>>

CompleteRecord(taskId, status, saved) ==
    [op |-> "complete", seq |-> 1 - last.seq, again |-> FALSE, saved |-> saved,
     taskId |-> taskId, status |-> status]

\* The handler of PUT /task/:calendarId/:taskId/complete of the user `user`;
\* outcome "saveFails": calendar.save() rejects, "logFails": logActivity
\* rejects
CompleteTask(user, calendarId, taskId, notes, outcome) ==
    LET found == /\ calendarId \in 1..Len(calendars)
                 /\ calendars[calendarId].userId = user
        known == found /\ taskId \in 1..Len(calendars[calendarId].tasks)
        task == calendars[calendarId].tasks[taskId]
        done == [task EXCEPT
                    !.completed = TRUE,
                    !.completedDate = now,
                    !.notes = IF notes \notin {Undefined, <<>>} THEN notes ELSE @]
    IN  /\ IF ~known
           THEN /\ last' = CompleteRecord(taskId, 404, FALSE)
                /\ calendars' = calendars
           ELSE IF daysDifference(now, task.scheduledDate) > 1
           THEN /\ last' = CompleteRecord(taskId, 400, FALSE)
                /\ calendars' = calendars
           ELSE IF outcome = "saveFails"
           THEN /\ last' = CompleteRecord(taskId, 500, FALSE)
                /\ calendars' = calendars
           ELSE /\ last' = CompleteRecord(taskId,
                                          IF outcome = "logFails" THEN 500 ELSE 200,
                                          TRUE)
                /\ calendars' = [calendars EXCEPT ![calendarId].tasks[taskId] = done]
        /\ UNCHANGED <<now, ticks, userExists, db, peakWarnings, posts, reqs, ledgerLog>>

NextCalendar ==
    \/ TickDay
    \/ \E user \in CalendarUsers, calendarId \in 1..2,
          taskId \in 1..(Len(TaskOffsets) + 1), notes \in {Undefined, <<>>, Hi},
          outcome \in {"ok", "saveFails", "logFails"} :
            CompleteTask(user, calendarId, taskId, notes, outcome)

SpecCalendar == InitCalendar /\ [][NextCalendar]_vars

---------------------------------------------------------------------------
(* routes/cropCalendar.js: cropTaskTemplates and generateTasksFromTemplate. *)
(* The offsets of the templates reach 365 days, so this part counts an      *)
(* instant in hours since the midnight of day 0, and a Date is a local day  *)
(* with a local hour, [day, hour].  The days are the days of DayHours: one  *)
(* of 23 hours and one of 25 hours, the change of the clock at the end of   *)
(* the day.  An entry without `recurring` has recurring 0; the type, title  *)
(* and stage of a task are the number of its template entry.                *)

Entry(offsetDays, recurring) == [offsetDays |-> offsetDays, recurring |-> recurring]

cropTaskTemplates ==
    << [name |-> <<"t","o","m","a","t","o">>, durationDays |-> 90,
        tasks |-> << Entry(0, 0), Entry(3, 0), Entry(7, 0), Entry(10, 3),
                     Entry(21, 0), Entry(25, 0), Entry(35, 0), Entry(45, 0),
                     Entry(40, 0), Entry(50, 0), Entry(60, 0), Entry(75, 0),
                     Entry(85, 0) >>],
       [name |-> <<"w","h","e","a","t">>, durationDays |-> 120,
        tasks |-> << Entry(0, 0), Entry(-3, 0), Entry(0, 0), Entry(21, 0),
                     Entry(21, 0), Entry(40, 0), Entry(40, 0), Entry(60, 0),
                     Entry(65, 0), Entry(75, 0), Entry(90, 0), Entry(100, 0),
                     Entry(120, 0) >>],
       [name |-> <<"r","i","c","e">>, durationDays |-> 120,
        tasks |-> << Entry(0, 0), Entry(1, 0), Entry(20, 0), Entry(25, 0),
                     Entry(30, 5), Entry(35, 0), Entry(40, 0), Entry(55, 0),
                     Entry(70, 0), Entry(75, 0), Entry(90, 0), Entry(110, 0),
                     Entry(120, 0) >>],
       [name |-> <<"m","a","i","z","e">>, durationDays |-> 100,
        tasks |-> << Entry(0, 0), Entry(3, 0), Entry(7, 0), Entry(15, 7),
                     Entry(25, 0), Entry(35, 0), Entry(45, 0), Entry(50, 0),
                     Entry(60, 0), Entry(100, 0) >>],
       [name |-> <<"c","o","t","t","o","n">>, durationDays |-> 150,
        tasks |-> << Entry(0, 0), Entry(5, 0), Entry(10, 0), Entry(15, 10),
                     Entry(30, 0), Entry(45, 0), Entry(50, 0), Entry(70, 0),
                     Entry(120, 0), Entry(140, 0) >>],
       [name |-> <<"s","u","g","a","r","c","a","n","e">>, durationDays |-> 365,
        tasks |-> << Entry(0, 0), Entry(3, 0), Entry(7, 0), Entry(15, 10),
                     Entry(60, 0), Entry(120, 0), Entry(90, 0), Entry(365, 0) >>],
       [name |-> <<"p","o","t","a","t","o">>, durationDays |-> 90,
        tasks |-> << Entry(0, 0), Entry(3, 0), Entry(7, 0), Entry(10, 5),
                     Entry(30, 0), Entry(40, 0), Entry(50, 0), Entry(90, 0) >>],
       [name |-> <<"o","n","i","o","n">>, durationDays |-> 120,
        tasks |-> << Entry(0, 0), Entry(3, 0), Entry(7, 0), Entry(10, 7),
                     Entry(30, 0), Entry(60, 0), Entry(100, 0), Entry(120, 0) >>],
       [name |-> <<"s","o","y","b","e","a","n">>, durationDays |-> 100,
        tasks |-> << Entry(0, 0), Entry(3, 0), Entry(7, 0), Entry(15, 10),
                     Entry(30, 0), Entry(40, 0), Entry(100, 0) >>],
       [name |-> <<"g","r","o","u","n","d","n","u","t">>, durationDays |-> 110,
        tasks |-> << Entry(0, 0), Entry(3, 0), Entry(7, 0), Entry(15, 10),
                     Entry(30, 0), Entry(50, 0), Entry(110, 0) >>] >>

\* cropTaskTemplates[key] is not undefined
HasTemplate(key) == \E t \in 1..Len(cropTaskTemplates) : cropTaskTemplates[t].name = key

\* cropTaskTemplates[key]
TemplateOf(key) ==
    cropTaskTemplates[CHOOSE t \in 1..Len(cropTaskTemplates) : cropTaskTemplates[t].name = key]

\* 24 * 60 * 60 * 1000 milliseconds, in hours
HoursPerDay == 24

\* for (let i = 0; i < 10; i++)
MaxInstances == 10

\* The hours from the midnight of day 0 to the midnight of day d: 24 for
\* each day, one more for each day of 25 hours, one less for each of 23
HoursBefore(d) ==
    d * HoursPerDay
        + Cardinality({x \in 0..(d - 1) : DayHours(x) = HoursPerDay + 1})
        - Cardinality({x \in 0..(d - 1) : DayHours(x) = HoursPerDay - 1})

\* date.getTime(), in hours
getTime(date) == HoursBefore(date.day) + date.hour

\* date.setDate(date.getDate() + n): the day moves, the local hour stays
setDate(date, n) == [date EXCEPT !.day = @ + n]

\* sowingDate.getTime() + template.durationDays * 24 * 60 * 60 * 1000
expectedHarvestTime(template, sowingDate) ==
    getTime(sowingDate) + template.durationDays * HoursPerDay

entryTasksUnguarded(template, e, sowingDate) ==
    LET taskTemplate == template.tasks[e]
    IN  IF taskTemplate.recurring # 0
        THEN [k \in 1..MaxInstances |->
                [entry |-> e, week |-> k,
                 scheduledDate |-> setDate(sowingDate,
                     taskTemplate.offsetDays + (k - 1) * taskTemplate.recurring)]]
        ELSE << [entry |-> e, week |-> 0,
                 scheduledDate |-> setDate(sowingDate, taskTemplate.offsetDays)] >>

\* The body of template.tasks.forEach for the entry e; week k is the
\* instance i = k - 1 of the loop, 0 a task that does not recur
entryTasks(template, e, sowingDate) ==
    LET taskTemplate == template.tasks[e]
    IN  IF taskTemplate.recurring # 0
        THEN SelectSeq(
                [k \in 1..MaxInstances |->
                    [entry |-> e, week |-> k,
                     scheduledDate |-> setDate(sowingDate,
                         taskTemplate.offsetDays + (k - 1) * taskTemplate.recurring)]],
                LAMBDA task : getTime(task.scheduledDate)
                                <= expectedHarvestTime(template, sowingDate))
        ELSE << [entry |-> e, week |-> 0,
                 scheduledDate |-> setDate(sowingDate, taskTemplate.offsetDays)] >>

\* template.tasks.forEach from the entry e on
RECURSIVE templateTasks(_, _, _)
templateTasks(template, e, sowingDate) ==
    IF e > Len(template.tasks) THEN <<>>
    ELSE entryTasks(template, e, sowingDate) \o templateTasks(template, e + 1, sowingDate)

\* expectedHarvestDate is an instant in hours
generateTasksFromTemplate(crop, sowingDate) ==
    LET key == ToLowerCase(crop)
    IN  IF ~HasTemplate(key)
        THEN [thrown |-> TRUE, tasks |-> <<>>, expectedHarvestDate |-> 0]
        ELSE [thrown |-> FALSE,
              tasks |-> templateTasks(TemplateOf(key), 1, sowingDate),
              expectedHarvestDate |-> expectedHarvestTime(TemplateOf(key), sowingDate)]

\* The crops of the calls: every key of cropTaskTemplates, one of them
\* capitalised, and a crop without a template
CropInputs ==
    {cropTaskTemplates[t].name : t \in 1..Len(cropTaskTemplates)}
        \cup {<<"W","h","e","a","t">>, <<"b","a","r","l","e","y">>}

\* The sowing dates of the calls: midnight and 18:00 of every day
SowingDateInputs ==
    {[day |-> d, hour |-> h] : d \in 0..(MaxCalendarDays - 1), h \in {0, 18}}

InitGenerate ==
    /\ now = 0
    /\ ticks = 0
    /\ userExists = TRUE
    /\ db = ZeroUser
    /\ peakWarnings = 0
    /\ posts = <<>>
    /\ reqs = [r \in MoreReqs |-> IdleReq]
    /\ ledgerLog = <<>>
    /\ last = NoCall
    /\ calendars = <<>>

\* One call of generateTasksFromTemplate(crop, sowingDate)
GenerateCall(crop, sowingDate) ==
    LET result == generateTasksFromTemplate(crop, sowingDate)
    IN  /\ last = NoCall
        /\ last' = [op |-> "generateTasksFromTemplate", seq |-> 0, again |-> FALSE,
                    saved |-> FALSE, crop |-> crop, sowingDate |-> sowingDate,
                    thrown |-> result.thrown, tasks |-> result.tasks,
                    expectedHarvestDate |-> result.expectedHarvestDate]
        /\ UNCHANGED <<now, ticks, userExists, db, peakWarnings, posts, reqs,
                       ledgerLog, calendars>>

NextGenerate ==
    \E crop \in CropInputs, sowingDate \in SowingDateInputs :
        GenerateCall(crop, sowingDate)

SpecGenerate == InitGenerate /\ [][NextGenerate]_vars

---------------------------------------------------------------------------
(* routes/forum.js: POST /posts/:postId/upvote, one action for the load    *)
(* with the change of the loaded document and one for the save.  The save  *)
(* sends a pushed id as an append to the stored array; it sends a spliced  *)
(* array whole and fails when the stored version is no longer the loaded.  *)

Voters == {1, 2}

\* Array.prototype.indexOf
indexOf(list, x) ==
    IF x \notin Range(list) THEN -1
    ELSE (CHOOSE i \in 1..Len(list) :
            list[i] = x /\ \A j \in 1..(i - 1) : list[j] # x) - 1

\* list.splice(index, 1)
splice(list, index) ==
    SubSeq(list, 1, index) \o SubSeq(list, index + 2, Len(list))

\* One post without upvotes, no request yet
InitUpvote ==
    /\ now = 0
    /\ ticks = 0
    /\ userExists = TRUE
    /\ db = ZeroUser
    /\ peakWarnings = 0
    /\ posts = << [by |-> 1, content |-> Hi, replies |-> <<>>,
                   status |-> "open", views |-> 0,
                   upvotes |-> <<>>, version |-> 0] >>
    /\ reqs = [r \in MoreReqs |-> IdleReq]
    /\ ledgerLog = <<>>
    /\ last = NoCall
    /\ calendars = <<>>

\* const post = await ForumPost.findById(postId), then the splice or push
\* on the loaded document
UpvoteFind(r, voter, postId) ==
    /\ MayStart(r)
    /\ reqs' = [reqs EXCEPT ![r] =
            IF postId \notin 1..Len(posts)
            THEN Finish([@ EXCEPT !.kind = "upvote", !.voter = voter], 404)
            ELSE LET upvotes == posts[postId].upvotes
                     upvoteIndex == indexOf(upvotes, voter)
                 IN  [@ EXCEPT
                        !.pc = "upvoting", !.kind = "upvote", !.voter = voter,
                        !.target = postId,
                        !.atomic = IF upvoteIndex > -1 THEN "$set" ELSE "$push",
                        !.post = [upvotes |->
                                    IF upvoteIndex > -1
                                    THEN splice(upvotes, upvoteIndex)
                                    ELSE Append(upvotes, voter),
                                  version |-> posts[postId].version]]]
    /\ UNCHANGED <<now, ticks, userExists, db, peakWarnings, posts, ledgerLog, last, calendars>>

\* await post.save(), then the response
UpvoteSave(r) ==
    /\ reqs[r].pc = "upvoting"
    /\ LET req == reqs[r]
           stored == posts[req.target]
           stale == req.atomic = "$set" /\ stored.version # req.post.version
       IN  /\ posts' = IF stale THEN posts
                       ELSE [posts EXCEPT ![req.target] =
                            [@ EXCEPT
                                !.upvotes = IF req.atomic = "$push"
                                            THEN Append(@, req.voter)
                                            ELSE req.post.upvotes,
                                !.version = @ + 1]]
           /\ reqs' = [reqs EXCEPT ![r] = Finish(@, IF stale THEN 500 ELSE 200)]
    /\ UNCHANGED <<now, ticks, userExists, db, peakWarnings, ledgerLog, last, calendars>>

NextUpvote ==
    \E r \in MoreReqs :
        \/ \E voter \in Voters, postId \in 1..2 : UpvoteFind(r, voter, postId)
        \/ UpvoteSave(r)

SpecUpvote == InitUpvote /\ [][NextUpvote]_vars

---------------------------------------------------------------------------
(* Properties of the ledger and the gate called directly (SpecLedger) *)

\* C1: starting from the zero-valued user, the first three flagged ledger
\* calls return warned, temporarily blocked (blockedUntil = time of the call
\* + 7 days) and permanently blocked, in this order, and warningCount reads
\* 1, 2 and 3 after them.
C1_WarningSequence ==
    /\ Len(ledgerLog) >= 1 =>
        /\ ledgerLog[1].result.warned
        /\ ~ledgerLog[1].result.blocked
        /\ ledgerLog[1].result.warnings = 1
        /\ ledgerLog[1].count = 1
        /\ ledgerLog[1].until = Null
    /\ Len(ledgerLog) >= 2 =>
        /\ ledgerLog[2].result.blocked
        /\ ledgerLog[2].result.message = "temporary"
        /\ ledgerLog[2].result.blockedUntil = ledgerLog[2].at + 7 * 86400000
        /\ ledgerLog[2].until = ledgerLog[2].at + 7 * 86400000
        /\ ledgerLog[2].result.warnings = 2
        /\ ledgerLog[2].count = 2
    /\ Len(ledgerLog) >= 3 =>
        /\ ledgerLog[3].result.blocked
        /\ ledgerLog[3].result.message = "permanent"
        /\ ledgerLog[3].result.warnings = 3
        /\ ledgerLog[3].count = 3

C1_Witness ==
    /\ Len(ledgerLog) = 3
    /\ db.forumWarnings = 3
    /\ db.isBlockedFromForum
    /\ last.op = "ledger" /\ last.saved

\* The decision the gate makes, as the claim C2 states it
GateDecision(user, t) ==
    IF user.isBlockedFromForum THEN "deniedPermanent"
    ELSE IF user.forumBlockedUntil # Null /\ t < user.forumBlockedUntil
    THEN "deniedTemporary"
    ELSE "allowed"

\* C2: every access check answers Denied-Permanent when permanentlyBlocked
\* is set (whatever the temporary block), otherwise Denied-Temporary when
\* temporaryBlockUntil is set and now < temporaryBlockUntil, otherwise
\* Allowed: exactly one of the three.
C2_GateDecision ==
    [][GateCall =>
        /\ last'.result.kind \in {"deniedPermanent", "deniedTemporary", "allowed"}
        /\ last'.result.kind = GateDecision(db, now)]_vars

C2_Witness ==
    /\ last.op = "access"
    /\ last.result.kind = "deniedPermanent"
    /\ db.isBlockedFromForum
    /\ db.forumBlockedUntil # Null
    /\ now < db.forumBlockedUntil

\* C3: a ledger call whose scan result is not flagged leaves warningCount,
\* warningHistory, permanentlyBlocked and temporaryBlockUntil as they were,
\* persists nothing and returns blocked = false, warned = false.
C3_CleanCallNoMutation ==
    [][\A content \in SampleContents, title \in SampleTitles :
        (LedgerCallWith(content, title)
            /\ ~moderateContent(content, title).isAbusive) =>
        /\ db' = db
        /\ ~last'.saved
        /\ last'.result.blocked = FALSE
        /\ last'.result.warned = FALSE]_vars

C3_Witness ==
    /\ last.op = "ledger"
    /\ ~last.saved
    /\ last.result.blocked = FALSE /\ last.result.warned = FALSE
    /\ db.forumWarnings = 1
    /\ Len(db.forumWarningHistory) = 1

\* C4: over any sequence of ledger calls warningCount never decreases: a
\* flagged call adds exactly 1, a clean call leaves it.
C4_CountMonotonic ==
    [][/\ db'.forumWarnings >= db.forumWarnings
       /\ \A content \in SampleContents, title \in SampleTitles :
            LedgerCallWith(content, title) =>
                db'.forumWarnings = db.forumWarnings
                    + (IF moderateContent(content, title).isAbusive
                       THEN 1 ELSE 0)]_vars

C4_Witness ==
    /\ last.op = "ledger"
    /\ ~last.saved
    /\ db.forumWarnings = 2
    /\ Len(ledgerLog) = 2

\* C6: temporaryBlockUntil gets a timestamp only from a flagged ledger call
\* that moves warningCount from 1 to 2, and the timestamp is the time of
\* that call + 7 days.
C6_TemporaryBlockOnlyAtTwo ==
    [][(db'.forumBlockedUntil # Null
            /\ db'.forumBlockedUntil # db.forumBlockedUntil) =>
        /\ \E content \in SampleContents, title \in SampleTitles :
            /\ LedgerCallWith(content, title)
            /\ moderateContent(content, title).isAbusive
        /\ db.forumWarnings = 1
        /\ db'.forumWarnings = 2
        /\ db'.forumBlockedUntil = now + 7 * 86400000]_vars

C6_Witness ==
    /\ last.op = "ledger"
    /\ last.result.message = "temporary"
    /\ db.forumWarnings = 2
    /\ now > 0
    /\ db.forumBlockedUntil = now + 7 * 86400000

\* C7: an access check of a user who is not permanently blocked and whose
\* temporaryBlockUntil is set and past (now >= temporaryBlockUntil) returns
\* Allowed, clears the field and persists; the access check after it returns
\* Allowed and changes nothing.
C7_ExpiredBlockCleared ==
    [][GateCall =>
        /\ (~db.isBlockedFromForum /\ db.forumBlockedUntil # Null
                /\ now >= db.forumBlockedUntil) =>
            /\ last'.result.kind = "allowed"
            /\ db'.forumBlockedUntil = Null
            /\ last'.saved
        /\ (last.op = "access" /\ last.saved) =>
            /\ last'.result.kind = "allowed"
            /\ db' = db
            /\ ~last'.saved]_vars

C7_Witness ==
    /\ last.op = "access"
    /\ last.again
    /\ last.result.kind = "allowed"
    /\ db.forumBlockedUntil = Null
    /\ Len(ledgerLog) = 2
    /\ now = ledgerLog[2].until + 1

\* C13: a flagged ledger call on a user whose warningCount is 2 or more
\* appends one history entry, adds 1 to the count, sets permanentlyBlocked,
\* returns the permanently-blocked outcome and leaves temporaryBlockUntil as
\* it was, set or not.
C13_PermanentFromTwo ==
    [][\A content \in SampleContents, title \in SampleTitles :
        (/\ LedgerCallWith(content, title)
         /\ moderateContent(content, title).isAbusive
         /\ db.forumWarnings >= 2) =>
        /\ Len(db'.forumWarningHistory) = Len(db.forumWarningHistory) + 1
        /\ SubSeq(db'.forumWarningHistory, 1, Len(db.forumWarningHistory))
                = db.forumWarningHistory
        /\ db'.forumWarnings = db.forumWarnings + 1
        /\ db'.isBlockedFromForum = TRUE
        /\ last'.result.blocked = TRUE
        /\ last'.result.message = "permanent"
        /\ db'.forumBlockedUntil = db.forumBlockedUntil]_vars

C13_Witness ==
    /\ last.op = "ledger"
    /\ last.result.message = "permanent"
    /\ db.forumWarnings = 4
    /\ Len(db.forumWarningHistory) = 4
    /\ db.isBlockedFromForum
    /\ db.forumBlockedUntil # Null
    /\ now < db.forumBlockedUntil

\* C15, as stated: on the transition of warningCount from 0 to 1 the ledger
\* returns the warned outcome and the number in its message is the number of
\* warnings remaining before the block, 3 minus the new warningCount.
C15_MessageReportsRemaining ==
    Len(ledgerLog) >= 1 =>
        /\ ledgerLog[1].result.warned
        /\ ledgerLog[1].result.messageNumber = 3 - ledgerLog[1].count

\* C15, amended: on the transition of warningCount from 0 to 1 the ledger
\* returns the warned outcome and the number in its message is the new
\* warningCount, the number of warnings received (1).
C15_MessageReportsReceived ==
    Len(ledgerLog) >= 1 =>
        /\ ledgerLog[1].result.warned
        /\ ~ledgerLog[1].result.blocked
        /\ ledgerLog[1].count = 1
        /\ ledgerLog[1].result.messageNumber = ledgerLog[1].count

C15_Witness ==
    /\ Len(ledgerLog) = 1
    /\ last.op = "ledger"
    /\ last.result.warned
    /\ last.result.messageNumber = 1
    /\ db.forumWarnings = 1

---------------------------------------------------------------------------
(* Properties of the requests (Spec, SpecRace) *)

\* C5: in every reachable state of a user who starts zero-valued,
\* permanentlyBlocked is true only if the persisted warningCount is, or
\* earlier was, at least 3.
C5_PermanentOnlyFromThree ==
    db.isBlockedFromForum => peakWarnings >= 3

C5_Witness ==
    /\ db.isBlockedFromForum
    /\ \E r \in MoreReqs :
        /\ reqs[r].pc = "done"
        /\ reqs[r].ledger.message = "permanent"
        /\ reqs[r].wrote = 3

ReadOnlyKinds == {"listPosts", "getPost", "tags"}
Denied == {"deniedPermanent", "deniedTemporary"}

\* C8: every request that reached the scan, the ledger or the content store
\* has had its access check answer Allowed before; a request whose access
\* check answered Denied has ended with 403 without scan, ledger call or
\* stored content; the read-only routes run without an access check.
C8_GateBeforeMutation ==
    /\ \A r \in MoreReqs :
        /\ (\/ reqs[r].pc \in {"handler", "saving", "storing", "replying"}
            \/ reqs[r].scanned
            \/ reqs[r].ledger # NoAction
            \/ reqs[r].wrote # Null) => reqs[r].access = "allowed"
        /\ reqs[r].access \in Denied =>
            /\ reqs[r].pc = "done"
            /\ reqs[r].status = 403
            /\ ~reqs[r].scanned
            /\ reqs[r].ledger = NoAction
            /\ reqs[r].wrote = Null
        /\ reqs[r].kind \in ReadOnlyKinds =>
            /\ reqs[r].access = "none"
            /\ reqs[r].loaded = Null
    /\ \A i \in 1..Len(posts) :
        /\ reqs[posts[i].by].kind = "post"
        /\ reqs[posts[i].by].access = "allowed"
        /\ \A j \in 1..Len(posts[i].replies) :
            /\ reqs[posts[i].replies[j].by].kind = "reply"
            /\ reqs[posts[i].replies[j].by].access = "allowed"

C8_Witness ==
    /\ \E r \in MoreReqs : reqs[r].access \in Denied
    /\ \E i \in 1..Len(posts) : reqs[posts[i].by].access = "allowed"

\* C9: two requests of one user with flagged content that both loaded
\* warningCount n both persist n + 1: when they are the only requests that
\* wrote, the persisted warningCount is n + 1 and not n + 2.
C9_LostWarning ==
    \A r1, r2 \in MoreReqs :
        (/\ r1 # r2
         /\ reqs[r1].wrote # Null
         /\ reqs[r2].wrote # Null
         /\ reqs[r1].loaded = reqs[r2].loaded
         /\ \A r3 \in MoreReqs \ {r1, r2} : reqs[r3].wrote = Null) =>
        /\ reqs[r1].wrote = reqs[r1].loaded + 1
        /\ reqs[r2].wrote = reqs[r2].loaded + 1
        /\ db.forumWarnings = reqs[r1].loaded + 1

C9_Witness ==
    \E r1, r2 \in MoreReqs :
        /\ r1 # r2
        /\ reqs[r1].pc = "done" /\ reqs[r2].pc = "done"
        /\ reqs[r1].wrote # Null /\ reqs[r2].wrote # Null
        /\ reqs[r1].loaded = reqs[r2].loaded
        /\ db.forumWarnings = reqs[r1].loaded + 1
        /\ Len(db.forumWarningHistory) = reqs[r1].loaded + 2

\* C10: the persisted warningCount never decreases from one persisted state
\* to the next, whatever the interleaving of the requests.
C10_PersistedCountNeverDecreases ==
    [][db'.forumWarnings >= db.forumWarnings]_vars

\* C11: every step that changes the persisted warningCount, warningHistory
\* or permanentlyBlocked is the one save of a flagged ledger call and shows
\* all of that call's changes at once: the history grows by the call's
\* entry, the count is the call's count, a count of 2 comes with the call's
\* temporaryBlockUntil (the time of the call + 7 days) and a count of 3 or
\* more comes with permanentlyBlocked = true.
C11_AtomicLedgerWrite ==
    [][(\/ db'.forumWarnings # db.forumWarnings
        \/ db'.forumWarningHistory # db.forumWarningHistory
        \/ db'.isBlockedFromForum # db.isBlockedFromForum) =>
        LET history == db'.forumWarningHistory
            entry == history[Len(history)]
        IN  /\ Len(history) = Len(db.forumWarningHistory) + 1
            /\ SubSeq(history, 1, Len(history) - 1) = db.forumWarningHistory
            /\ \/ SoloRequest
               \/ \E r \in MoreReqs :
                    /\ reqs[r].pc = "saving"
                    /\ reqs'[r].pc = "done"
                    /\ reqs[r].pushed = <<entry>>
                    /\ db'.forumWarnings = reqs[r].user.forumWarnings
                    /\ reqs[r].ledger.warnings = db'.forumWarnings
            /\ db'.forumWarnings = 2 =>
                    db'.forumBlockedUntil = entry.date + 7 * 86400000
            /\ db'.forumWarnings >= 3 => db'.isBlockedFromForum]_vars

C11_Witness ==
    /\ db.forumWarnings = 2
    /\ Len(db.forumWarningHistory) = 2
    /\ now > 0
    /\ db.forumBlockedUntil = db.forumWarningHistory[2].date + 7 * 86400000
    /\ \E r \in MoreReqs :
        /\ reqs[r].pc = "done"
        /\ reqs[r].wrote = 2
        /\ reqs[r].ledger.message = "temporary"
        /\ reqs[r].ledger.blockedUntil = db.forumBlockedUntil

\* C12: a request is answered with a warned, temporarily-blocked or
\* permanently-blocked outcome only once its save has persisted the updated
\* user state; when the save fails the request ends with an error (500)
\* and without such an outcome, the persisted user state and the posts are
\* as they were, and the request stores no post and no reply.
C12_OutcomeOnlyAfterSave ==
    [][\A r \in MoreReqs :
        /\ (reqs'[r].pc = "done" /\ reqs'[r].ledger.message # "none") =>
            /\ reqs'[r].wrote # Null
            /\ reqs'[r].wrote = reqs'[r].ledger.warnings
            /\ reqs'[r].status \in {400, 403}
        /\ (reqs[r].pc = "saving" /\ reqs'[r].pc = "done") =>
            IF reqs'[r].wrote # Null
            THEN /\ db'.forumWarnings = reqs'[r].wrote
                 /\ Len(db'.forumWarningHistory) = Len(db.forumWarningHistory) + 1
                 /\ reqs'[r].ledger = reqs[r].ledger
            ELSE /\ reqs'[r].status = 500
                 /\ reqs'[r].ledger.message = "none"
                 /\ db' = db
                 /\ posts' = posts
        /\ (reqs'[r].scanned /\ reqs'[r].status = 500) =>
            \A i \in 1..Len(posts') :
                /\ posts'[i].by # r
                /\ \A j \in 1..Len(posts'[i].replies) :
                        posts'[i].replies[j].by # r]_vars

C12_Witness ==
    \E r1, r2 \in MoreReqs :
        /\ reqs[r1].pc = "done" /\ reqs[r1].scanned /\ reqs[r1].status = 500
        /\ reqs[r1].wrote = Null /\ reqs[r1].ledger.message = "none"
        /\ reqs[r2].pc = "done" /\ reqs[r2].status = 400
        /\ reqs[r2].ledger.warned /\ reqs[r2].wrote = 1
        /\ db.forumWarnings = 1
        /\ Len(db.forumWarningHistory) = 1

\* C14: warningHistory is append-only: every step leaves the persisted
\* history as a prefix of the new one, a step that changes it appends
\* exactly one entry at the end (the time of the flagged call, the matched
\* terms, the offending text), and the save of every flagged ledger call is
\* such a step.
C14_HistoryAppendOnly ==
    [][LET old == db.forumWarningHistory
           new == db'.forumWarningHistory
       IN  /\ Len(new) >= Len(old)
           /\ SubSeq(new, 1, Len(old)) = old
           /\ new # old =>
                /\ Len(new) = Len(old) + 1
                /\ new[Len(new)].date \in 0..now
                /\ \E content \in SampleContents, title \in SampleTitles \cup {<<>>} :
                    /\ moderateContent(content, title).isAbusive
                    /\ new[Len(new)].reason
                            = moderateContent(content, title).detectedWords
                    /\ new[Len(new)].content = FullText(content, title)
           /\ \A r \in MoreReqs :
                (reqs[r].pc = "saving" /\ reqs'[r].wrote # Null) =>
                    /\ Len(reqs[r].pushed) = 1
                    /\ new = Append(old, reqs[r].pushed[1])]_vars

C14_Witness ==
    /\ Len(db.forumWarningHistory) = 2
    /\ db.forumWarnings = 1
    /\ db.forumWarningHistory[1].date < db.forumWarningHistory[2].date
    /\ \A r \in Reqs : reqs[r].pc = "done" /\ reqs[r].wrote = 1

\* The posts and replies stored, as pairs of place and author
StoredContent(ps) ==
    {<<i, 0, ps[i].by>> : i \in 1..Len(ps)}
    \cup UNION {{<<i, j, ps[i].replies[j].by>> : j \in 1..Len(ps[i].replies)} :
                    i \in 1..Len(ps)}

\* C21: no step stores a post or a reply while the persisted state of its
\* author is permanently blocked or has a temporaryBlockUntil in the
\* future, whatever the interleaving of the author's requests.
C21_NothingStoredWhileBlocked ==
    [][StoredContent(posts') # StoredContent(posts) =>
        /\ ~db.isBlockedFromForum
        /\ ~(db.forumBlockedUntil # Null /\ now < db.forumBlockedUntil)]_vars

\* C22: a request whose text the scanner flags stores nothing: a request
\* with a warned or blocked outcome of the ledger is the author of no post
\* and no reply, and no step of it, from the scan to its response, changes
\* the stored posts and replies.
C22_FlaggedNeverStored ==
    [][\A r \in MoreReqs :
        /\ reqs'[r].ledger.message # "none" =>
            /\ reqs'[r].pc \in {"saving", "done"}
            /\ \A x \in StoredContent(posts') : x[3] # r
        /\ (reqs'[r] # reqs[r] /\ reqs'[r].scanned
                /\ (reqs'[r].ledger.message # "none" \/ reqs[r].pc = "saving")) =>
            posts' = posts]_vars

C22_Witness ==
    \E r1, r2 \in MoreReqs :
        /\ reqs[r1].pc = "done" /\ reqs[r1].ledger.warned /\ reqs[r1].status = 400
        /\ reqs[r1].kind = "reply"
        /\ reqs[r2].pc = "done" /\ reqs[r2].kind = "post" /\ reqs[r2].status = 200
        /\ StoredContent(posts) = {<<1, 0, r2>>}

\* C23: once the persisted permanentlyBlocked flag is true no step sets it
\* back to false, and every post or reply request that arrives from then
\* on loads the blocked user and is denied by the access gate (403) without
\* scan or ledger call and without a change of warningCount, warningHistory
\* or temporaryBlockUntil.
C23_PermanentBlockStays ==
    [][/\ db.isBlockedFromForum => db'.isBlockedFromForum
       /\ \A r \in MoreReqs :
            /\ (db.isBlockedFromForum /\ reqs[r].pc = "idle"
                    /\ reqs'[r].pc = "found") =>
                /\ reqs'[r].user.isBlockedFromForum
                /\ db' = db
            /\ (reqs[r].pc = "found" /\ reqs[r].user.isBlockedFromForum
                    /\ reqs'[r] # reqs[r]) =>
                /\ reqs'[r].pc = "done"
                /\ reqs'[r].access = "deniedPermanent"
                /\ reqs'[r].status = 403
                /\ ~reqs'[r].scanned
                /\ reqs'[r].wrote = Null
                /\ db' = db
                /\ posts' = posts]_vars

C23_Witness ==
    /\ db.isBlockedFromForum
    /\ db.forumWarnings = 3
    /\ \E r1, r2 \in MoreReqs :
        /\ reqs[r1].pc = "done" /\ reqs[r1].wrote = 3
        /\ reqs[r1].ledger.message = "permanent"
        /\ reqs[r2].pc = "done" /\ reqs[r2].access = "deniedPermanent"
        /\ reqs[r2].status = 403 /\ reqs[r2].loaded = 3

---------------------------------------------------------------------------
(* Properties of the upvotes (SpecUpvote) *)

\* C24: after any upvote requests on a post, interleaved or not, each user
\* id occurs at most once in the post's upvotes, and when one user's two
\* upvote requests are the only ones answered the list is as it was before
\* the first, empty.
C24_UpvotesUnique ==
    /\ \A i \in 1..Len(posts) : \A j, k \in 1..Len(posts[i].upvotes) :
            j # k => posts[i].upvotes[j] # posts[i].upvotes[k]
    /\ \A r1, r2 \in MoreReqs :
        (/\ r1 # r2
         /\ reqs[r1].kind = "upvote" /\ reqs[r1].status = 200
         /\ reqs[r2].kind = "upvote" /\ reqs[r2].status = 200
         /\ reqs[r1].voter = reqs[r2].voter
         /\ \A r3 \in MoreReqs \ {r1, r2} : reqs[r3].pc = "idle") =>
            posts[1].upvotes = <<>>

---------------------------------------------------------------------------
(* Properties of the scanner (SpecScan) *)

\* C16: for every text that contains an entry of the list, in any letter
\* casing and with any punctuation in place of the spaces between the
\* entry's words, the scan is flagged and its matched terms contain that
\* entry.
C16_ListedTermFlagged ==
    last.op = "scanTerm" =>
        /\ last.result.isAbusive
        /\ last.about \in Range(last.result.detectedWords)

\* The spam pattern as the claim C17 states it
SpamPatternStated(text) ==
    \/ /\ 2 * Cardinality({i \in 1..Len(text) : text[i] \in UpperSet}) > Len(text)
       /\ Len(text) > 10
    \/ \E i \in 1..(Len(text) - 4) : \A k \in 1..4 : text[i + k] = text[i]

\* C17: the scan puts the spam_pattern token into its matched terms exactly
\* when more than half of the characters of the text as given are upper
\* case and the text is longer than 10 characters, or some character stands
\* 5 or more times in a row; 4 in a row do not trigger it, and neither does
\* an all-upper-case text of 10 characters or fewer without such a run.
C17_SpamPatternExactly ==
    last.op \in {"scanText", "scanTerm"} =>
        /\ SpamPattern \in Range(last.result.detectedWords)
                <=> SpamPatternStated(last.text)
        /\ (\E c \in RunChars : last.text = Repeated(c, 4)) =>
                SpamPattern \notin Range(last.result.detectedWords)
        /\ (\E u \in 1..10 : last.text = CapsText(u, 0)) =>
                SpamPattern \notin Range(last.result.detectedWords)

\* An entry of the list, as listed, occurs in the normalized text
ListEntryOccurs(text) ==
    \E i \in 1..Len(abusiveWords) : Includes(normalizeText(text), abusiveWords[i])

\* C18: the scan is flagged exactly when an entry of the list occurs in the
\* normalized text or the spam pattern fires; a text with no listed word or
\* phrase in it and no spam pattern, such as an ordinary word that shares
\* one letter with an entry, is not flagged and has no matched terms.
C18_FlaggedOnlyOnMatch ==
    last.op = "scanText" =>
        /\ last.result.isAbusive
                <=> (ListEntryOccurs(last.text)
                        \/ excessiveCaps(last.text) \/ repeatedChars(last.text))
        /\ ~last.result.isAbusive => last.result.detectedWords = <<>>

\* C19: for content that is missing or not a string moderateContent
\* returns a result that is not flagged and has no matched terms, with a
\* title and without one, and the ledger called with such content records
\* no warning.
C19_MissingContentNotFlagged ==
    /\ last.op = "moderate" =>
        /\ ~last.result.isAbusive
        /\ last.result.detectedWords = <<>>
    /\ db.forumWarnings = 0
    /\ db.forumWarningHistory = <<>>

---------------------------------------------------------------------------
(* Properties of the crop calendar (SpecCalendar) *)

\* C20: a step marks a task completed only when the task's scheduled
\* calendar day is at most 1 day after the current day; a completion
\* request for a task whose scheduled day is 2 or more days after the
\* current day is rejected (400) and leaves the task's completed flag,
\* completedDate and notes as they were.
C20_CompleteOnlyWhenDue ==
    [][/\ \A c \in 1..Len(calendars) : \A i \in 1..Len(calendars[c].tasks) :
            (/\ calendars'[c].tasks[i] # calendars[c].tasks[i]
             /\ calendars'[c].tasks[i].completed) =>
                DayOf(calendars[c].tasks[i].scheduledDate) - DayOf(now) <= 1
       /\ (/\ last' # last
           /\ last'.op = "complete"
           /\ last'.status # 404
           /\ DayOf(calendars[1].tasks[last'.taskId].scheduledDate) - DayOf(now) >= 2) =>
            /\ last'.status = 400
            /\ calendars'[1].tasks[last'.taskId] = calendars[1].tasks[last'.taskId]
            /\ calendars' = calendars]_vars

C20_Witness ==
    /\ last.op = "complete"
    /\ last.status = 200
    /\ calendars[1].tasks[last.taskId].completed
    /\ calendars[1].tasks[last.taskId].completedDate = now
    /\ calendars[1].tasks[last.taskId].notes = Hi
    /\ DayOf(calendars[1].tasks[last.taskId].scheduledDate) = DayOf(now) + 1
    /\ \E i \in 1..Len(calendars[1].tasks) : ~calendars[1].tasks[i].completed

---------------------------------------------------------------------------
(* Properties of the task generator (SpecGenerate) *)

\* The call returned tasks
Generated == last.op = "generateTasksFromTemplate" /\ ~last.thrown

\* The tasks of the result that come from the template entry e
InstancesOf(e) == {i \in 1..Len(last.tasks) : last.tasks[i].entry = e}

C25_RecurringCut ==
    /\ Generated
    /\ \E e \in 1..Len(TemplateOf(ToLowerCase(last.crop)).tasks) :
        /\ TemplateOf(ToLowerCase(last.crop)).tasks[e].recurring # 0
        /\ Cardinality(InstancesOf(e)) = 9

====
